---------------------------- MODULE Spec2Model ----------------------------
(***************************************************************************)
(* A model of the weather application's retrieval pipeline.                *)
(*                                                                         *)
(*   SpecApi  : the API client (frontend/src/lib/api.ts) called directly,  *)
(*              one call at a time, over every transport outcome.          *)
(*   Spec     : the user interface: WeatherForm under its parent (App, or  *)
(*              a parent that passes its own props and onSubmit), with     *)
(*              App.handleWeatherSearch calling the API client.            *)
(*   SpecCore : the retrieval use case, cache and provider adapter of the  *)
(*              backend, whose code is not part of the sources; it         *)
(*              is modelled from the specification's sections 3 to 5.      *)
(*   SpecView : what the user is shown: getErrorMessage (api.ts) applied   *)
(*              to an error, and WeatherCard rendered with a weather       *)
(*              record (its icon and its 'Last updated' text).             *)
(*                                                                         *)
(* Strings that are trimmed or case-folded are sequences of one-character  *)
(* strings; codes, messages and other opaque texts are TLA+ strings.       *)
(***************************************************************************)
EXTENDS Integers, Sequences, FiniteSets, TLC

(***************************************************************************)
(* Bounds of the model.                                                    *)
(***************************************************************************)
\* Longest short input string that is enumerated character by character.
MaxLen == 3
\* Number of clock steps that make up one client timeout.
TicksPerTimeout == 2
\* Number of concurrent callers of the retrieval use case.
MaxCallers == 2
\* Number of clock steps that make up one cache TTL.
TicksPerTtl == 2
\* Number of clock steps the backend's clock makes.
MaxTicks == 4

(***************************************************************************)
(* Program constants.                                                      *)
(***************************************************************************)
\* WeatherForm.handleSubmit: trimmedCity.length > 100
MaxCityLength == 100
\* axios.create({ timeout: 10000 })
ApiTimeoutMs == 10000
\* new WeatherAPIError('Request timed out. Please try again.', 'TIMEOUT', 408)
TimeoutStatus == 408
\* new WeatherAPIError('Unable to connect ...', 'NETWORK_ERROR', 0)
NetworkErrorStatus == 0
\* README.md: CACHE_TTL, default 300 (seconds)
CacheTtl == 300

(***************************************************************************)
(* JavaScript values.                                                      *)
(***************************************************************************)
UNDEFINED == "<undefined>"
NULL == "<null>"

\* Operand of `x || y` and `if (x)`: undefined, null and '' are falsy.
Falsy(v) == v \in {UNDEFINED, NULL, ""}

\* a || b
OrElse(a, b) == IF Falsy(a) THEN b ELSE a

(***************************************************************************)
(* Strings as sequences of characters; String.prototype.trim.              *)
(***************************************************************************)
\* Two of the characters String.prototype.trim strips: the space and the tab.
WhiteSpace == {" ", "\t"}
Chars == {" ", "a"}

RECURSIVE TrimStart(_)
TrimStart(s) ==
    IF s # <<>> /\ Head(s) \in WhiteSpace THEN TrimStart(Tail(s)) ELSE s

RECURSIVE TrimEnd(_)
TrimEnd(s) ==
    IF s # <<>> /\ s[Len(s)] \in WhiteSpace
    THEN TrimEnd(SubSeq(s, 1, Len(s) - 1))
    ELSE s

TrimLeftOnly(s) == TrimStart(s)

Trim(s) == TrimEnd(TrimStart(s))

\* 'a'.repeat(n)
Repeat(c, n) == [i \in 1..n |-> c]

\* All strings over Chars of length at most n.
RECURSIVE StringsUpTo(_)
StringsUpTo(n) ==
    IF n = 0 THEN {<<>>}
    ELSE LET shorter == StringsUpTo(n - 1)
         IN  shorter \cup {Append(s, c) : s \in {t \in shorter : Len(t) = n - 1}, c \in Chars}

\* Inputs at the length limit: 100 and 101 characters, bare and padded.
LongStrings ==
    {Repeat(" ", l) \o Repeat("a", n) \o Repeat(" ", r) :
        n \in {MaxCityLength, MaxCityLength + 1}, l \in 0..1, r \in 0..1}

\* Inputs with a tab: a tab and a space as padding, and a tab inside the name.
TabbedStrings == {<<"\t", "a", " ">>, <<"a", "\t", "a">>}

CityInputs == StringsUpTo(MaxLen) \cup LongStrings \cup TabbedStrings


(***************************************************************************)
(* CityWeather (api.ts): the record the backend answers with.  Every field *)
(* is kept as its JSON text; UNDEFINED marks a field the payload lacks.    *)
(***************************************************************************)
WeatherFields ==
    {"city", "temperature", "humidity", "wind_speed", "condition", "fetched_at", "provider"}

CityWeather(c, t, h, w, cond, at) ==
    [city |-> c, temperature |-> t, humidity |-> h, wind_speed |-> w,
     condition |-> cond, fetched_at |-> at, provider |-> "weatherapi"]

LondonWeather ==
    CityWeather("London", "22.5", "65", "12.7", "Partly cloudy", "2024-01-15T10:30:00.000Z")

ParisWeather ==
    CityWeather("Paris", "-3", "80", "0", "Light snow", "2024-01-15T10:35:00.000Z")

\* A success payload that lacks a required field.
PartialWeather == [LondonWeather EXCEPT !.humidity = UNDEFINED]

\* `null` where a CityWeather is expected (App: useState<CityWeather | null>(null)).
NullWeather == [f \in WeatherFields |-> NULL]

ResponseData == {LondonWeather, ParisWeather, PartialWeather}

(***************************************************************************)
(* What awaiting api.get('/weather', ...) can yield (the transport, axios):*)
(* a response, an AxiosError with or without a response, or the rejection  *)
(* with a value that is no AxiosError.                                     *)
(***************************************************************************)
\* ErrorResponse (api.ts): the body of an error response.  present = FALSE
\* stands for a body that is null, undefined or empty (error.response.data falsy).
NoBody == [present |-> FALSE, code |-> UNDEFINED, message |-> UNDEFINED, details |-> UNDEFINED]

BodyCodes ==
    {UNDEFINED, "", "BAD_REQUEST", "UNKNOWN_CITY", "TIMEOUT", "NETWORK_ERROR",
     "UPSTREAM_ERROR", "INTERNAL_ERROR", "CUSTOM_CODE"}

BodyMessages == {UNDEFINED, "", "Invalid or unknown city: Atlantis"}

EmptyObject == "{}"

BodyDetails == {UNDEFINED, NULL, EmptyObject, "{field: 'city'}"}

ErrorBodies ==
    [present : {TRUE}, code : BodyCodes, message : BodyMessages, details : BodyDetails]

HttpErrorStatuses == {422, 500, 502, 504}

\* AxiosError.code of a request that got no response.
NoResponseCodes == {"ECONNABORTED", "ERR_NETWORK", UNDEFINED}

\* Rejections that are not AxiosErrors: new Error('Some other error'), undefined.
OtherRejections == {"Error: Some other error", UNDEFINED}

NoOutcome ==
    [kind |-> "none", data |-> NullWeather, hasResponse |-> FALSE, status |-> 0,
     body |-> NoBody, errCode |-> UNDEFINED, value |-> UNDEFINED]

Success(d) == [NoOutcome EXCEPT !.kind = "success", !.data = d, !.hasResponse = TRUE, !.status = 200]

\* axios (settle): a status outside 2xx rejects with ERR_BAD_REQUEST (4xx) or
\* ERR_BAD_RESPONSE (5xx) and carries the response.
HttpError(st, b) ==
    [NoOutcome EXCEPT !.kind = "axios", !.hasResponse = TRUE, !.status = st, !.body = b,
                      !.errCode = IF st < 500 THEN "ERR_BAD_REQUEST" ELSE "ERR_BAD_RESPONSE"]

NoResponse(c) == [NoOutcome EXCEPT !.kind = "axios", !.errCode = c]

NonAxios(v) == [NoOutcome EXCEPT !.kind = "other", !.value = v]

\* The timeout of the axios instance fires: no response, code ECONNABORTED.
TimeoutOutcome == NoResponse("ECONNABORTED")

Outcomes ==
    {Success(d) : d \in ResponseData}
    \cup {HttpError(st, b) : st \in HttpErrorStatuses, b \in ErrorBodies \cup {NoBody}}
    \cup {NoResponse(c) : c \in NoResponseCodes}
    \cup {NonAxios(v) : v \in OtherRejections}

(***************************************************************************)
(* api.ts: WeatherAPIError and getWeather.                                 *)
(***************************************************************************)
FailedToFetch == "Failed to fetch weather data"
TimedOutMessage == "Request timed out. Please try again."
UnableToConnect ==
    "Unable to connect to weather service. Please check your internet connection."

NoResult ==
    [tag |-> "none", data |-> NullWeather, message |-> UNDEFINED, code |-> UNDEFINED,
     statusCode |-> 0, details |-> UNDEFINED, value |-> UNDEFINED]

\* constructor(message, code, statusCode, details = {}): the default replaces
\* only an argument that is undefined.
WeatherAPIError(message, code, statusCode, details) ==
    [NoResult EXCEPT !.tag = "WeatherAPIError", !.message = message, !.code = code,
                     !.statusCode = statusCode,
                     !.details = IF details = UNDEFINED THEN EmptyObject ELSE details]

\* return response.data
Resolved(d) == [NoResult EXCEPT !.tag = "resolved", !.data = d]

\* A catch block that wraps what it does not know instead of re-throwing it.
WrappedRethrown(v) ==
    [NoResult EXCEPT !.tag = "WeatherAPIError", !.message = FailedToFetch,
                     !.code = "UNKNOWN_ERROR", !.details = EmptyObject]

\* throw error: the caught value itself, not a WeatherAPIError.
Rethrown(v) == [NoResult EXCEPT !.tag = "thrown", !.value = v]

\* params: { city: city.trim() }
RequestCity(c) == Trim(c)

\* The one GET of a getWeather call.
WeatherRequest(c) == [url |-> "/weather", city |-> RequestCity(c)]

\* if (error.response?.data)
HasErrorData(o) == o.hasResponse /\ o.body.present

\* A response error that carries a fixed status instead of the response's.
WrongStatusError(o) ==
    WeatherAPIError(OrElse(o.body.message, FailedToFetch), OrElse(o.body.code, "UNKNOWN_ERROR"),
                    TimeoutStatus, o.body.details)

\* new WeatherAPIError(errorData.message || ..., errorData.code || ..., status, details)
ResponseError(o) ==
    WeatherAPIError(OrElse(o.body.message, FailedToFetch), OrElse(o.body.code, "UNKNOWN_ERROR"),
                    o.status, o.body.details)

\* The timeout branch throwing the connection failure's error.
SwappedTimeoutError == WeatherAPIError(UnableToConnect, "NETWORK_ERROR", NetworkErrorStatus, UNDEFINED)

TimeoutError == WeatherAPIError(TimedOutMessage, "TIMEOUT", TimeoutStatus, UNDEFINED)

\* The connection-failure branch throwing the timeout's error.
SwappedNetworkError == WeatherAPIError(TimedOutMessage, "TIMEOUT", TimeoutStatus, UNDEFINED)

NetworkError == WeatherAPIError(UnableToConnect, "NETWORK_ERROR", NetworkErrorStatus, UNDEFINED)

\* An UNKNOWN_ERROR that loses the status of the response.
StatuslessUnknownError(o) ==
    WeatherAPIError(FailedToFetch, "UNKNOWN_ERROR", NetworkErrorStatus, UNDEFINED)

\* new WeatherAPIError('Failed to fetch weather data', 'UNKNOWN_ERROR', error.response.status)
UnknownError(o) == WeatherAPIError(FailedToFetch, "UNKNOWN_ERROR", o.status, UNDEFINED)

\* A catch block without the axios.isAxiosError test: it classifies whatever
\* it caught.
ClassifyingCatchError(o) ==
    IF HasErrorData(o) THEN ResponseError(o)
    ELSE IF o.errCode = "ECONNABORTED" THEN TimeoutError
    ELSE IF ~o.hasResponse THEN NetworkError
    ELSE UnknownError(o)

\* The catch block of getWeather.
CatchError(o) ==
    IF o.kind = "axios"
    THEN IF HasErrorData(o) THEN ResponseError(o)
         ELSE IF o.errCode = "ECONNABORTED" THEN TimeoutError
         ELSE IF ~o.hasResponse THEN NetworkError
         ELSE UnknownError(o)
    ELSE Rethrown(o.value)

\* What a getWeather call settles with, given what its request yielded.
GetWeatherResult(o) ==
    IF o.kind = "success" THEN Resolved(o.data) ELSE CatchError(o)


(***************************************************************************)
(* State.                                                                  *)
(***************************************************************************)
VARIABLES
    call,         \* SpecApi: the getWeather call of a direct caller of api.ts
    parent,       \* who renders WeatherForm: "App", or "Harness" (a parent with props of its own)
    city,         \* WeatherForm: useState('')
    inputError,   \* WeatherForm: useState<string | null>(null)
    isSubmitting, \* WeatherForm: useState(false)
    loading,      \* the loading prop (App: useState(false))
    error,        \* the error prop (App: useState<string | null>(null))
    weather,      \* App: useState<CityWeather | null>(null)
    pending,      \* the onSubmit calls of the form whose handleSubmit has not finished
    lastEvent,    \* what the last step was, and whether it called onSubmit
    cache,        \* SpecCore: the cache, normalized key -> entry
    fetches,      \* SpecCore: the provider calls in flight, each with the callers waiting on it
    callers,      \* SpecCore: caller -> the key it waits for, or idle
    now,          \* SpecCore: the clock, in seconds
    lastFetched,  \* SpecCore: key -> fetched_at of the key's latest successful fetch, or -1
    lastStep,     \* SpecCore: what the last step did and returned
    view          \* SpecView: the last thing shown, and what it was made from

apiVars == <<call>>

uiVars == <<parent, city, inputError, isSubmitting, loading, error, weather, pending, lastEvent>>

coreVars == <<cache, fetches, callers, now, lastFetched, lastStep>>

viewVars == <<view>>

vars == <<call, parent, city, inputError, isSubmitting, loading, error, weather, pending,
          lastEvent, cache, fetches, callers, now, lastFetched, lastStep, view>>

(***************************************************************************)
(* One getWeather call: its argument, the requests it has sent, the time   *)
(* its request has been waiting, what the request yielded and what the     *)
(* call settled with.                                                      *)
(***************************************************************************)
IdleCall ==
    [st |-> "idle", input |-> <<>>, requests |-> <<>>, elapsed |-> 0,
     outcome |-> NoOutcome, result |-> NoResult]

\* A getWeather that validates first and sends nothing for an invalid city.
ValidatingStartGetWeather(c) ==
    IF Trim(c) = <<>> \/ Len(Trim(c)) > MaxCityLength
    THEN [IdleCall EXCEPT !.st = "settled", !.input = c,
                          !.result = WeatherAPIError("City name is invalid", "BAD_REQUEST", 422, UNDEFINED)]
    ELSE [IdleCall EXCEPT !.st = "pending", !.input = c,
                          !.requests = <<WeatherRequest(c)>>]

\* getWeather(city) up to its await: api.get('/weather', { params: { city: city.trim() } })
StartGetWeather(c) ==
    [IdleCall EXCEPT !.st = "pending", !.input = c, !.requests = <<WeatherRequest(c)>>]

\* A getWeather that sends its request once more when it failed.
RetryingSettleGetWeather(cl, o) ==
    [cl EXCEPT !.st = "settled", !.outcome = o, !.result = GetWeatherResult(o),
               !.requests = IF o.kind = "success" THEN @ ELSE Append(@, WeatherRequest(cl.input))]

\* getWeather after its await: return response.data, or the catch block.
SettleGetWeather(cl, o) ==
    [cl EXCEPT !.st = "settled", !.outcome = o, !.result = GetWeatherResult(o)]

\* One step of the clock while the request waits.
TickMs == ApiTimeoutMs \div TicksPerTimeout

TimedOut(cl) == cl.elapsed >= ApiTimeoutMs

(***************************************************************************)
(* SpecApi: api.ts called directly, one call after the other.              *)
(***************************************************************************)
(***************************************************************************)
(* The backend pipeline (specification, sections 3 to 5): normalized keys, *)
(* records, the cache and the provider adapter's mapping.                  *)
(***************************************************************************)
\* str.casefold of one character.
Fold(ch) == CASE ch = "A" -> "a" [] ch = "B" -> "b" [] OTHER -> ch

CaseFold(s) == [i \in 1..Len(s) |-> Fold(s[i])]

\* A key derivation that forgets to fold the case.
TrimmedKey(input) == Trim(input)

\* Section 3: the normalized city key is the case-folded, trimmed input.
NormalizedKey(input) == CaseFold(Trim(input))

\* The city names the callers of the use case send.
CoreInputs ==
    {<<"a">>, <<" ", "A", " ">>, <<"b">>, <<>>, <<" ">>, Repeat("a", MaxCityLength + 1)}

CoreKeys == {NormalizedKey(i) : i \in CoreInputs}

\* Section 7: the closed taxonomy.
ErrorKinds ==
    {"InvalidInput", "UnknownCity", "BadRequest", "Timeout", "NetworkUnavailable",
     "UpstreamUnavailable", "InternalProviderError"}

\* What the provider call of the adapter can observe (section 4.2, left column).
ProviderConditions ==
    {"timeout", "connection_failure", "city_not_recognized", "malformed_request",
     "outage_or_rate_limit", "unclassified_5xx", "success", "success_missing_field"}

NoReturn == [kind |-> "none", city |-> <<>>, fetched_at |-> 0, error |-> "none"]

\* A Normalized Weather Record; of its fields the model keeps the city and
\* fetched_at, the time the value was produced.
Record(key, at) == [NoReturn EXCEPT !.kind = "record", !.city = key, !.fetched_at = at]

Failure(kind) == [NoReturn EXCEPT !.kind = "error", !.error = kind]

\* Section 4.2: the adapter's mapping of what it observed, for the city asked
\* at time `at`.
AdapterFetch(condition, key, at) ==
    CASE condition = "timeout" -> Failure("Timeout")
      [] condition = "connection_failure" -> Failure("NetworkUnavailable")
      [] condition = "city_not_recognized" -> Failure("UnknownCity")
      [] condition = "malformed_request" -> Failure("BadRequest")
      [] condition = "outage_or_rate_limit" -> Failure("UpstreamUnavailable")
      [] condition = "unclassified_5xx" -> Failure("InternalProviderError")
      [] condition = "success" -> Record(key, at)
      [] condition = "success_missing_field" -> Failure("InternalProviderError")

NoEntry == [present |-> FALSE, record |-> NoReturn, insertedAt |-> 0]

\* An expiry test that never expires an entry.
NeverExpired(entry, t) == entry.present

\* Section 3: entry age > TTL => treated as absent.
Live(entry, t) == entry.present /\ t - entry.insertedAt <= CacheTtl

\* Cache.get(key) at time t: the record, or absent.  Nothing is deleted.
CacheGet(c, key, t) == IF Live(c[key], t) THEN c[key].record ELSE NoReturn

\* A put that keeps the entry a key already has.
PutIfAbsent(c, key, record, t) ==
    IF c[key].present THEN c
    ELSE [c EXCEPT ![key] = [present |-> TRUE, record |-> record, insertedAt |-> t]]

\* Cache.put(key, record) at time t: overwrites unconditionally.
CachePut(c, key, record, t) ==
    [c EXCEPT ![key] = [present |-> TRUE, record |-> record, insertedAt |-> t]]

\* A use case that also remembers failures.
StoreAlways(c, key, ret, t) == CachePut(c, key, ret, t)

\* Steps 4 and 5 of the use case: write the record of a success, never a failure.
StoreResult(c, key, ret, t) ==
    IF ret.kind = "record" THEN CachePut(c, key, ret, t) ELSE c

Callers == 1..MaxCallers

Idle == [st |-> "idle", key |-> <<>>]

Waiting(key) == [st |-> "waiting", key |-> key]

Fetch(key, c) == [key |-> key, waiters |-> {c}]

\* What a step did: the callers it served, what it returned to them, and prev,
\* the fetched_at of the key's latest successful fetch before the step (-1: none).
Step(kind, input, key, who, ret, prev) ==
    [kind |-> kind, input |-> input, key |-> key, callers |-> who, ret |-> ret,
     prev |-> prev]

NoStep(kind) == Step(kind, <<>>, <<>>, {}, NoReturn, -1)

\* One clock step, in seconds.
ClockStep == CacheTtl \div TicksPerTtl

\* The backend before anything happened (it takes no part in SpecApi and Spec).
CoreIdle ==
    /\ cache = [k \in CoreKeys |-> NoEntry]
    /\ fetches = {}
    /\ callers = [c \in Callers |-> Idle]
    /\ now = 0
    /\ lastFetched = [k \in CoreKeys |-> -1]
    /\ lastStep = NoStep("none")

\* Nothing shown yet.
NoView ==
    [fn |-> "none", err |-> NoResult, weather |-> NullWeather,
     message |-> "", icon |-> "", updated |-> ""]

ViewIdle == view = NoView

\* The user interface before anything happened (it takes no part in SpecApi).
UiIdle ==
    /\ parent = "App"
    /\ city = <<>>
    /\ inputError = NULL
    /\ isSubmitting = FALSE
    /\ loading = FALSE
    /\ error = NULL
    /\ weather = NullWeather
    /\ pending = <<>>
    /\ lastEvent = [kind |-> "none", called |-> FALSE, arg |-> <<>>]

InitApi == call = IdleCall /\ UiIdle /\ CoreIdle /\ ViewIdle

\* A caller invokes getWeather(city).
ApiGetWeather ==
    /\ call.st # "pending"
    /\ \E c \in CityInputs : call' = StartGetWeather(c)
    /\ UNCHANGED <<uiVars, coreVars, viewVars>>

\* Time passes without a response.
ApiTick ==
    /\ call.st = "pending"
    /\ ~TimedOut(call)
    /\ call' = [call EXCEPT !.elapsed = @ + TickMs]
    /\ UNCHANGED <<uiVars, coreVars, viewVars>>

\* The request yields a response or fails before the timeout.
ApiSettle ==
    /\ call.st = "pending"
    /\ ~TimedOut(call)
    /\ \E o \in Outcomes : call' = SettleGetWeather(call, o)
    /\ UNCHANGED <<uiVars, coreVars, viewVars>>

\* timeout: 10000 - axios gives the request up.
ApiTimeout ==
    /\ call.st = "pending"
    /\ TimedOut(call)
    /\ call' = SettleGetWeather(call, TimeoutOutcome)
    /\ UNCHANGED <<uiVars, coreVars, viewVars>>

NextApi == ApiGetWeather \/ ApiTick \/ ApiSettle \/ ApiTimeout

SpecApi == InitApi /\ [][NextApi]_vars


(***************************************************************************)
(* api.ts: getErrorMessage.                                                *)
(***************************************************************************)
UnexpectedTryAgain == "An unexpected error occurred. Please try again."

\* isWeatherAPIError(error): error instanceof WeatherAPIError
IsWeatherAPIError(r) == r.tag = "WeatherAPIError"

\* A getErrorMessage that prefers the error's own message whatever the code.
OwnMessageFirst(r) ==
    IF IsWeatherAPIError(r)
    THEN OrElse(r.message, "An unexpected error occurred.")
    ELSE UnexpectedTryAgain

GetErrorMessage(r) ==
    IF IsWeatherAPIError(r)
    THEN CASE r.code = "UNKNOWN_CITY" -> "City not found. Please check the spelling and try again."
           [] r.code = "TIMEOUT" -> "Request timed out. Please try again."
           [] r.code = "NETWORK_ERROR" -> "Unable to connect. Please check your internet connection."
           [] r.code = "BAD_REQUEST" -> OrElse(r.message, "Invalid request. Please check your input.")
           [] OTHER -> OrElse(r.message, "An unexpected error occurred.")
    ELSE UnexpectedTryAgain

(***************************************************************************)
(* WeatherForm.tsx (the component of lines 110-202) and App.tsx.           *)
(*                                                                         *)
(* A step is one event handler run to its first await together with the    *)
(* render that follows it, or the continuation of an async function after  *)
(* its await.  React renders between two events of the user, so a handler  *)
(* always reads the state its predecessor left.                            *)
(***************************************************************************)
EnterCityName == "Please enter a city name"
CityNameTooLong == "City name cannot exceed 100 characters"

\* The error props a parent other than App passes (error: string | null).
HarnessErrors == {NULL, "", "Network error"}

Event(k) == [kind |-> k, called |-> FALSE, arg |-> <<>>]

\* An onSubmit call that is awaited by handleSubmit: its argument, whether its
\* promise has settled, and (under App) the getWeather call it made.
Submission(arg, cl) == [arg |-> arg, settled |-> FALSE, call |-> cl]

\* <input disabled={loading}>
InputDisabled == loading

\* A button that does not look at isSubmitting.
ButtonDisabledByLoading == loading \/ Trim(city) = <<>>

\* <button disabled={loading || isSubmitting || !city.trim()}>
ButtonDisabled == loading \/ isSubmitting \/ Trim(city) = <<>>

\* An alert that prefers the error prop.
PropsErrorFirst == OrElse(error, inputError)

\* {(inputError || error) && <div role="alert">{inputError || error}</div>}
Alert == OrElse(inputError, error)

\* (inputError || error) && ...: the alert is rendered when its text is truthy.
AlertShown == ~Falsy(Alert)

\* A handleSubmit without the guard against double submission (the handler of
\* the file's first definition of the component, lines 17-38).
UnguardedSubmit == FALSE

\* A guard that does not look at the loading prop.
SubmitBlockedBySubmitting == isSubmitting

\* if (isSubmitting || loading) return
SubmitBlocked == isSubmitting \/ loading

\* A length check on the untrimmed value.
RawTooLong(t) == Len(city) > MaxCityLength

\* if (trimmedCity.length > 100)
TooLong(t) == Len(t) > MaxCityLength

\* An onSubmit that is handed the input as typed.
SubmittedRaw(t) == city

\* onSubmit(trimmedCity)
Submitted(t) == t

\* App.handleWeatherSearch(city) up to its await:
\* setLoading(true); setError(null); getWeather(city)
HandleWeatherSearchStart(arg) ==
    /\ loading' = TRUE
    /\ error' = NULL
    /\ pending' = Append(pending, Submission(arg, StartGetWeather(arg)))
    /\ UNCHANGED weather

\* The onSubmit of a parent other than App: it returns a promise and leaves
\* the props as they are.
HarnessOnSubmit(arg) ==
    /\ pending' = Append(pending, Submission(arg, IdleCall))
    /\ UNCHANGED <<loading, error, weather>>

\* props.onSubmit(arg)
OnSubmit(arg) ==
    IF parent = "App" THEN HandleWeatherSearchStart(arg) ELSE HarnessOnSubmit(arg)

\* WeatherForm.handleSubmit, up to its await.
HandleSubmit(kind) ==
    LET trimmedCity == Trim(city) IN
    IF SubmitBlocked
    THEN /\ lastEvent' = Event(kind)
         /\ UNCHANGED <<inputError, isSubmitting, loading, error, weather, pending>>
    ELSE IF trimmedCity = <<>>
    THEN /\ inputError' = EnterCityName
         /\ lastEvent' = Event(kind)
         /\ UNCHANGED <<isSubmitting, loading, error, weather, pending>>
    ELSE IF TooLong(trimmedCity)
    THEN /\ inputError' = CityNameTooLong
         /\ lastEvent' = Event(kind)
         /\ UNCHANGED <<isSubmitting, loading, error, weather, pending>>
    ELSE /\ inputError' = NULL
         /\ isSubmitting' = TRUE
         /\ OnSubmit(Submitted(trimmedCity))
         /\ lastEvent' = [kind |-> kind, called |-> TRUE, arg |-> Submitted(trimmedCity)]

\* The outcomes a search is run over.  App reads the data of a response and,
\* through getErrorMessage, the code and the message of an error: one HTTP
\* status and one details value stand for all.
SearchOutcomes ==
    {o \in Outcomes : o.status \in {0, 200, 422} /\ o.body.details = UNDEFINED}

\* Without i-th element.
RemoveAt(seq, i) == SubSeq(seq, 1, i - 1) \o SubSeq(seq, i + 1, Len(seq))

(***************************************************************************)
(* Spec: the user interface.                                               *)
(***************************************************************************)
Init ==
    /\ call = IdleCall
    /\ parent \in {"App", "Harness"}
    /\ city = <<>>
    /\ inputError = NULL
    /\ isSubmitting = FALSE
    /\ loading \in (IF parent = "App" THEN {FALSE} ELSE BOOLEAN)
    /\ error \in (IF parent = "App" THEN {NULL} ELSE HarnessErrors)
    /\ weather = NullWeather
    /\ pending = <<>>
    /\ lastEvent = Event("none")
    /\ CoreIdle
    /\ ViewIdle

\* App: {weather && !loading && <WeatherCard weather={weather} />}
WeatherCardShown == weather # NullWeather /\ ~loading

\* A handleInputChange that clears the input error whatever was typed.
ClearingInputChange ==
    \E value \in CityInputs :
        /\ city' = value
        /\ inputError' = NULL
        /\ lastEvent' = Event("change")
        /\ UNCHANGED <<viewVars, coreVars, call, parent, isSubmitting, loading, error, weather, pending>>

\* WeatherForm.handleInputChange: the value of the input changes.
HandleInputChange ==
    \E value \in CityInputs :
        /\ city' = value
        /\ inputError' = IF ~Falsy(inputError) /\ Trim(value) # <<>> THEN NULL ELSE inputError
        /\ lastEvent' = Event("change")
        /\ UNCHANGED <<viewVars, coreVars, call, parent, isSubmitting, loading, error, weather, pending>>

\* A submit event reaches the form (Enter in the input, or dispatched by a script).
SubmitForm ==
    /\ HandleSubmit("submit")
    /\ UNCHANGED <<viewVars, coreVars, call, parent, city>>

\* The user clicks the submit button, which a disabled button ignores.
ClickSubmitButton ==
    /\ ~ButtonDisabled
    /\ HandleSubmit("click")
    /\ UNCHANGED <<viewVars, coreVars, call, parent, city>>

\* Time passes while a getWeather call of App waits for its response.
SearchTick ==
    \E i \in 1..Len(pending) :
        /\ pending[i].call.st = "pending"
        /\ ~TimedOut(pending[i].call)
        /\ pending' = [pending EXCEPT ![i].call.elapsed = @ + TickMs]
        /\ lastEvent' = Event("tick")
        /\ UNCHANGED <<viewVars, coreVars, call, parent, city, inputError, isSubmitting, loading, error, weather>>

\* A handleWeatherSearch that keeps the record it has when the search fails.
StaleWeatherSearchSettle(i, o) ==
    LET settled == SettleGetWeather(pending[i].call, o) IN
    /\ IF settled.result.tag = "resolved"
       THEN weather' = settled.result.data /\ UNCHANGED error
       ELSE error' = GetErrorMessage(settled.result) /\ UNCHANGED weather
    /\ loading' = FALSE
    /\ pending' = [pending EXCEPT ![i].settled = TRUE, ![i].call = IdleCall]
    /\ lastEvent' = Event(IF settled.result.tag = "resolved" THEN "found" ELSE "failed")
    /\ UNCHANGED <<viewVars, coreVars, call, parent, city, inputError, isSubmitting>>

\* App.handleWeatherSearch after its await: setWeather(weatherData), or
\* setError(getErrorMessage(err)); setWeather(null); and finally setLoading(false).
HandleWeatherSearchSettle(i, o) ==
    LET settled == SettleGetWeather(pending[i].call, o) IN
    /\ IF settled.result.tag = "resolved"
       THEN weather' = settled.result.data /\ UNCHANGED error
       ELSE error' = GetErrorMessage(settled.result) /\ weather' = NullWeather
    /\ loading' = FALSE
    /\ pending' = [pending EXCEPT ![i].settled = TRUE, ![i].call = IdleCall]
    /\ lastEvent' = Event(IF settled.result.tag = "resolved" THEN "found" ELSE "failed")
    /\ UNCHANGED <<viewVars, coreVars, call, parent, city, inputError, isSubmitting>>

\* The request of a search yields a response or fails before the timeout.
SearchSettle ==
    \E i \in 1..Len(pending) :
        /\ pending[i].call.st = "pending"
        /\ ~TimedOut(pending[i].call)
        /\ \E o \in SearchOutcomes : HandleWeatherSearchSettle(i, o)

\* The request of a search times out.
SearchTimeout ==
    \E i \in 1..Len(pending) :
        /\ pending[i].call.st = "pending"
        /\ TimedOut(pending[i].call)
        /\ HandleWeatherSearchSettle(i, TimeoutOutcome)

\* The promise that the onSubmit of a parent other than App returned settles.
HarnessSettle ==
    /\ parent = "Harness"
    /\ \E i \in 1..Len(pending) :
        /\ ~pending[i].settled
        /\ pending' = [pending EXCEPT ![i].settled = TRUE]
    /\ lastEvent' = Event("settled")
    /\ UNCHANGED <<viewVars, coreVars, call, parent, city, inputError, isSubmitting, loading, error, weather>>

\* A parent other than App renders the form with other props.
HarnessRender ==
    /\ parent = "Harness"
    /\ \E l \in BOOLEAN, e \in HarnessErrors :
        /\ <<l, e>> # <<loading, error>>
        /\ loading' = l
        /\ error' = e
    /\ lastEvent' = Event("render")
    /\ UNCHANGED <<viewVars, coreVars, call, parent, city, inputError, isSubmitting, weather, pending>>

\* WeatherForm.handleSubmit after its await: finally { setIsSubmitting(false) }
HandleSubmitFinally ==
    \E i \in 1..Len(pending) :
        /\ pending[i].settled
        /\ isSubmitting' = FALSE
        /\ pending' = RemoveAt(pending, i)
        /\ lastEvent' = Event("finally")
        /\ UNCHANGED <<viewVars, coreVars, call, parent, city, inputError, loading, error, weather>>

Next ==
    \/ HandleInputChange
    \/ SubmitForm
    \/ ClickSubmitButton
    \/ SearchTick
    \/ SearchSettle
    \/ SearchTimeout
    \/ HarnessSettle
    \/ HarnessRender
    \/ HandleSubmitFinally

Spec == Init /\ [][Next]_vars

(***************************************************************************)
(* SpecCore: the retrieval use case under concurrent callers.              *)
(***************************************************************************)
InitCore == call = IdleCall /\ UiIdle /\ CoreIdle /\ ViewIdle

\* A use case without coalescing: every cache miss makes a provider call of its own.
NeverJoin(key) == {}

\* Section 5: the provider call in flight for the key, if there is one.
InFlight(key) == {f \in fetches : f.key = key}

\* getWeather(cityInput) of caller c, up to its suspension on the provider call:
\* validate, look the cache up, join the call in flight or make one.
GetWeather(c, input) ==
    LET trimmed == Trim(input)
        key == NormalizedKey(input)
        cached == CacheGet(cache, key, now)
        prev == lastFetched[key]
    IN  IF trimmed = <<>> \/ Len(trimmed) > MaxCityLength
        THEN /\ lastStep' = Step("invalid", input, key, {c}, Failure("InvalidInput"), prev)
             /\ UNCHANGED <<cache, fetches, callers, now, lastFetched>>
        ELSE IF cached.kind # "none"
        THEN /\ lastStep' = Step("hit", input, key, {c}, cached, prev)
             /\ UNCHANGED <<cache, fetches, callers, now, lastFetched>>
        ELSE IF InFlight(key) # {}
        THEN /\ \E f \in InFlight(key) :
                    fetches' = (fetches \ {f}) \cup {[f EXCEPT !.waiters = @ \cup {c}]}
             /\ callers' = [callers EXCEPT ![c] = Waiting(key)]
             /\ lastStep' = Step("joined", input, key, {c}, NoReturn, prev)
             /\ UNCHANGED <<cache, now, lastFetched>>
        ELSE /\ fetches' = fetches \cup {Fetch(key, c)}
             /\ callers' = [callers EXCEPT ![c] = Waiting(key)]
             /\ lastStep' = Step("fetching", input, key, {c}, NoReturn, prev)
             /\ UNCHANGED <<cache, now, lastFetched>>

\* A caller invokes the use case.
CoreGetWeather ==
    /\ \E c \in Callers, input \in CoreInputs :
        /\ callers[c].st = "idle"
        /\ GetWeather(c, input)
    /\ UNCHANGED <<apiVars, uiVars, viewVars>>

\* The provider call of a fetch ends: the adapter maps what it observed, the use
\* case stores a success, and every caller waiting on the call gets the outcome.
CoreProviderReturns ==
    /\ \E f \in fetches, condition \in ProviderConditions :
        LET ret == AdapterFetch(condition, f.key, now) IN
        /\ cache' = StoreResult(cache, f.key, ret, now)
        /\ fetches' = fetches \ {f}
        /\ callers' = [c \in Callers |-> IF c \in f.waiters THEN Idle ELSE callers[c]]
        /\ lastFetched' = IF ret.kind = "record"
                          THEN [lastFetched EXCEPT ![f.key] = ret.fetched_at]
                          ELSE lastFetched
        /\ lastStep' = Step(IF ret.kind = "record" THEN "fetched" ELSE "failed",
                            <<>>, f.key, f.waiters, ret, lastFetched[f.key])
        /\ UNCHANGED now
    /\ UNCHANGED <<apiVars, uiVars, viewVars>>

\* Time passes.  A clock step is longer than the provider timeout, so no
\* provider call is in flight across one: it has ended, at the latest as "timeout".
CoreTick ==
    /\ fetches = {}
    /\ now < MaxTicks * ClockStep
    /\ now' = now + ClockStep
    /\ lastStep' = NoStep("tick")
    /\ UNCHANGED <<cache, fetches, callers, lastFetched>>
    /\ UNCHANGED <<apiVars, uiVars, viewVars>>

NextCore == CoreGetWeather \/ CoreProviderReturns \/ CoreTick

SpecCore == InitCore /\ [][NextCore]_vars

(***************************************************************************)
(* WeatherCard.tsx: getWeatherIcon and formatDate.  The condition and the  *)
(* timestamp are strings, read character by character.                     *)
(***************************************************************************)
UpperLetters == "ABCDEFGHIJKLMNOPQRSTUVWXYZ"
LowerLetters == "abcdefghijklmnopqrstuvwxyz"

CharAt(s, i) == SubSeq(s, i, i)

LowerChar(ch) ==
    IF \E i \in 1..Len(UpperLetters) : CharAt(UpperLetters, i) = ch
    THEN CharAt(LowerLetters, CHOOSE i \in 1..Len(UpperLetters) : CharAt(UpperLetters, i) = ch)
    ELSE ch

\* String.prototype.toLowerCase
RECURSIVE ToLowerCase(_)
ToLowerCase(s) ==
    IF s = "" THEN "" ELSE LowerChar(CharAt(s, 1)) \o ToLowerCase(SubSeq(s, 2, Len(s)))

\* String.prototype.includes
Includes(s, sub) ==
    \E i \in 1..(Len(s) - Len(sub) + 1) : SubSeq(s, i, i + Len(sub) - 1) = sub

\* The emoji of getWeatherIcon, by name.
SunIcon == "sun"
CloudIcon == "cloud"
RainIcon == "cloud with rain"
SnowIcon == "snowflake"
ThunderIcon == "cloud with lightning and rain"
FogIcon == "fog"
DefaultIcon == "sun behind small cloud"

\* getWeatherIcon(condition): the first branch whose keyword the text has.
GetWeatherIcon(condition) ==
    LET lowerCondition == ToLowerCase(condition) IN
    IF Includes(lowerCondition, "sunny") \/ Includes(lowerCondition, "clear") THEN SunIcon
    ELSE IF Includes(lowerCondition, "cloud") THEN CloudIcon
    ELSE IF Includes(lowerCondition, "rain") \/ Includes(lowerCondition, "drizzle") THEN RainIcon
    ELSE IF Includes(lowerCondition, "snow") THEN SnowIcon
    ELSE IF Includes(lowerCondition, "thunder") \/ Includes(lowerCondition, "storm")
         THEN ThunderIcon
    ELSE IF Includes(lowerCondition, "fog") \/ Includes(lowerCondition, "mist") THEN FogIcon
    ELSE DefaultIcon

Digits == "0123456789"

IsDigit(ch) == \E d \in 1..Len(Digits) : CharAt(Digits, d) = ch

AllDigits(s) == \A i \in 1..Len(s) : IsDigit(CharAt(s, i))

DigitValue(ch) == (CHOOSE d \in 1..Len(Digits) : CharAt(Digits, d) = ch) - 1

RECURSIVE NumberOf(_)
NumberOf(s) ==
    IF s = "" THEN 0
    ELSE NumberOf(SubSeq(s, 1, Len(s) - 1)) * 10 + DigitValue(CharAt(s, Len(s)))

\* A Date whose time value is NaN.
InvalidDate == [valid |-> FALSE, year |-> 0, month |-> 0, day |-> 0, hour |-> 0, minute |-> 0]

\* The shape YYYY-MM-DDTHH:mm:ss.sssZ
IsoShape(s) ==
    /\ Len(s) = Len("2024-01-15T10:30:00.000Z")
    /\ CharAt(s, 5) = "-" /\ CharAt(s, 8) = "-" /\ CharAt(s, 11) = "T"
    /\ CharAt(s, 14) = ":" /\ CharAt(s, 17) = ":" /\ CharAt(s, 20) = "." /\ CharAt(s, 24) = "Z"
    /\ AllDigits(SubSeq(s, 1, 4)) /\ AllDigits(SubSeq(s, 6, 7)) /\ AllDigits(SubSeq(s, 9, 10))
    /\ AllDigits(SubSeq(s, 12, 13)) /\ AllDigits(SubSeq(s, 15, 16))
    /\ AllDigits(SubSeq(s, 18, 19)) /\ AllDigits(SubSeq(s, 21, 23))

\* new Date(isoString): the date of a timestamp in the ISO format with fields
\* in range, and a Date with the time value NaN for a string that is no date.
\* It does not throw.
NewDate(s) ==
    IF /\ IsoShape(s)
       /\ NumberOf(SubSeq(s, 6, 7)) \in 1..12
       /\ NumberOf(SubSeq(s, 9, 10)) \in 1..31
       /\ NumberOf(SubSeq(s, 12, 13)) \in 0..23
       /\ NumberOf(SubSeq(s, 15, 16)) \in 0..59
       /\ NumberOf(SubSeq(s, 18, 19)) \in 0..59
    THEN [valid |-> TRUE, year |-> NumberOf(SubSeq(s, 1, 4)),
          month |-> NumberOf(SubSeq(s, 6, 7)), day |-> NumberOf(SubSeq(s, 9, 10)),
          hour |-> NumberOf(SubSeq(s, 12, 13)), minute |-> NumberOf(SubSeq(s, 15, 16))]
    ELSE InvalidDate

MonthNames ==
    <<"January", "February", "March", "April", "May", "June", "July", "August",
      "September", "October", "November", "December">>

TwoDigit(n) == IF n < 10 THEN "0" \o ToString(n) ELSE ToString(n)

\* Date.prototype.toLocaleDateString('en-US', { year: 'numeric', month: 'long',
\* day: 'numeric', hour: '2-digit', minute: '2-digit' }), the time zone of the
\* runtime being UTC: the text 'Invalid Date' when the time value is NaN.
ToLocaleDateString(d) ==
    IF ~d.valid THEN "Invalid Date"
    ELSE MonthNames[d.month] \o " " \o ToString(d.day) \o ", " \o ToString(d.year) \o " at "
         \o TwoDigit(IF d.hour % 12 = 0 THEN 12 ELSE d.hour % 12) \o ":" \o TwoDigit(d.minute)
         \o (IF d.hour < 12 THEN " AM" ELSE " PM")

\* Whether the try block of formatDate throws: neither new Date(string) nor
\* toLocaleDateString with this locale and these options does.
FormatThrows(isoString) == FALSE

\* formatDate(isoString): try { ... toLocaleDateString ... } catch { return 'Unknown' }
FormatDate(isoString) ==
    IF FormatThrows(isoString) THEN "Unknown" ELSE ToLocaleDateString(NewDate(isoString))

(***************************************************************************)
(* SpecView: getErrorMessage applied to a value, WeatherCard rendered with *)
(* a weather record.                                                       *)
(***************************************************************************)
\* The condition texts WeatherCard is rendered with.
ViewConditions ==
    {"Sunny", "Clear", "Cloudy", "Partly cloudy", "Overcast", "Light rain",
     "Patchy light drizzle", "Light snow", "Blizzard", "Thundery outbreaks possible",
     "Moderate or heavy snow with thunder", "Patchy light rain with thunder",
     "Thunderstorm", "THUNDER", "Tropical Storm", "Storm clouds", "Snow storm",
     "Clear then storms", "Fog", "Mist", "Hail", ""}

\* The fetched_at texts WeatherCard is rendered with.
ViewDates ==
    {"2024-01-15T10:30:00.000Z", "2024-12-31T23:59:59.999Z", "2024-07-04T00:05:00.000Z",
     "invalid-date", "", "2024-13-45T10:30:00.000Z"}

CardWeather(condition, at) ==
    [LondonWeather EXCEPT !.condition = condition, !.fetched_at = at]

ViewCodes ==
    {"UNKNOWN_CITY", "TIMEOUT", "NETWORK_ERROR", "BAD_REQUEST", "CUSTOM_CODE",
     "UNKNOWN_ERROR", "UPSTREAM_ERROR", ""}

ViewMessages == {"", "Invalid input", "City not found"}

\* The values getErrorMessage is applied to: WeatherAPIErrors, and values that
\* are none (null, undefined, an Error, a string, an object).
ViewErrors ==
    {WeatherAPIError(m, c, st, UNDEFINED) : m \in ViewMessages, c \in ViewCodes, st \in {0, 422}}
    \cup {Rethrown(v) : v \in {NULL, UNDEFINED, "Error: Regular error", "string", EmptyObject}}

InitView == call = IdleCall /\ UiIdle /\ CoreIdle /\ ViewIdle

\* getErrorMessage(error)
ViewGetErrorMessage ==
    /\ \E e \in ViewErrors :
        view' = [NoView EXCEPT !.fn = "getErrorMessage", !.err = e,
                               !.message = GetErrorMessage(e)]
    /\ UNCHANGED <<apiVars, uiVars, coreVars>>

\* <WeatherCard weather={weather} />
ViewRenderWeatherCard ==
    /\ \E condition \in ViewConditions, at \in ViewDates :
        view' = [NoView EXCEPT !.fn = "WeatherCard", !.weather = CardWeather(condition, at),
                               !.icon = GetWeatherIcon(condition),
                               !.updated = FormatDate(at)]
    /\ UNCHANGED <<apiVars, uiVars, coreVars>>

NextView == ViewGetErrorMessage \/ ViewRenderWeatherCard

SpecView == InitView /\ [][NextView]_vars

(***************************************************************************)
(* Properties of the API client, checked under SpecApi.                    *)
(***************************************************************************)
\* The input the specification calls invalid: empty after trimming, or longer
\* than 100 characters after trimming.
InvalidCity(c) == Trim(c) = <<>> \/ Len(Trim(c)) > 100

CallSettled == call.st = "settled"

Rejected == CallSettled /\ call.result.tag # "resolved"

\* C1 as claimed: getWeather rejects an input that is empty or longer than
\* 100 characters after trimming, and sends no request for it.
C1_InvalidInputRejectedUnsent ==
    (call.st # "idle" /\ InvalidCity(call.input))
        => /\ call.st = "settled"
           /\ call.result.tag = "WeatherAPIError"
           /\ call.requests = <<>>

\* C1 as amended: getWeather does not validate.  Also for an input that is
\* empty or longer than 100 characters after trimming it sends exactly one GET
\* /weather with city = cityInput.trim(), and it settles by what that request
\* yields: it resolves exactly when the request succeeds.
C1_InvalidInputIsSent ==
    (call.st # "idle" /\ InvalidCity(call.input))
        => /\ call.requests = <<[url |-> "/weather", city |-> Trim(call.input)]>>
           /\ CallSettled => (call.result.tag = "resolved" <=> call.outcome.kind = "success")

\* getWeather('   ') has sent its request with city '' and resolved with the
\* response body.
C1_Witness ==
    /\ CallSettled
    /\ call.input = <<" ", " ", " ">>
    /\ Len(call.requests) = 1
    /\ call.requests[1].city = <<>>
    /\ call.result.tag = "resolved"

\* The closed set of error kinds of the specification, by the code each kind
\* has on the wire (README.md, the error bodies of the API).
TaxonomyCodes ==
    {"INVALID_INPUT", "UNKNOWN_CITY", "BAD_REQUEST", "TIMEOUT", "NETWORK_ERROR",
     "UPSTREAM_ERROR", "INTERNAL_ERROR"}

\* C5 as claimed: every failure of getWeather is a classified error whose kind
\* is one of the seven kinds of the closed set.
C5_FailureKindInClosedSet ==
    Rejected => (call.result.tag = "WeatherAPIError" /\ call.result.code \in TaxonomyCodes)

\* C5 as amended: a failure that is an AxiosError reaches the caller as a
\* WeatherAPIError with exactly one non-empty code, which is the code of the
\* response body when the body has one and else UNKNOWN_ERROR, TIMEOUT or
\* NETWORK_ERROR; a rejection that is no AxiosError reaches the caller as the
\* very value that was thrown, unclassified.
C5_FailureIsClassifiedOrRethrown ==
    Rejected =>
        IF call.outcome.kind = "axios"
        THEN /\ call.result.tag = "WeatherAPIError"
             /\ call.result.code \notin {UNDEFINED, NULL, ""}
             /\ \/ call.result.code \in {"UNKNOWN_ERROR", "TIMEOUT", "NETWORK_ERROR"}
                \/ (call.outcome.body.present /\ call.result.code = call.outcome.body.code)
        ELSE /\ call.result.tag = "thrown"
             /\ call.result.value = call.outcome.value

\* A response without a body has been surfaced with the code UNKNOWN_ERROR,
\* which is none of the seven kinds.
C5_Witness ==
    /\ Rejected
    /\ call.outcome.hasResponse
    /\ ~call.outcome.body.present
    /\ call.result.code = "UNKNOWN_ERROR"

\* C8: an AxiosError whose response has a body is rejected as a WeatherAPIError
\* with the body's code, message and details and the response's HTTP status; an
\* empty or missing message or code is replaced by the default, missing details
\* by {}.
C8_ResponseBodyIsSurfaced ==
    (CallSettled /\ call.outcome.kind = "axios" /\ call.outcome.hasResponse
                 /\ call.outcome.body.present)
        => /\ call.result.tag = "WeatherAPIError"
           /\ call.result.statusCode = call.outcome.status
           /\ call.result.message =
                IF call.outcome.body.message \in {UNDEFINED, NULL, ""}
                THEN "Failed to fetch weather data" ELSE call.outcome.body.message
           /\ call.result.code =
                IF call.outcome.body.code \in {UNDEFINED, NULL, ""}
                THEN "UNKNOWN_ERROR" ELSE call.outcome.body.code
           /\ call.result.details =
                IF call.outcome.body.details = UNDEFINED THEN "{}" ELSE call.outcome.body.details

\* A 504 whose body has the code TIMEOUT, an empty message and no details.
C8_Witness ==
    /\ CallSettled
    /\ call.outcome.kind = "axios"
    /\ call.outcome.status = 504
    /\ call.outcome.body = [present |-> TRUE, code |-> "TIMEOUT", message |-> "",
                            details |-> UNDEFINED]
    /\ call.result.statusCode = 504
    /\ call.result.code = "TIMEOUT"
    /\ call.result.message = "Failed to fetch weather data"

\* C9: no response within the client timeout (AxiosError ECONNABORTED without a
\* response) is rejected as WeatherAPIError TIMEOUT, 408, 'Request timed out.
\* Please try again.'.
C9_TimeoutIsSurfaced ==
    (CallSettled /\ (\/ call.elapsed >= 10000
                     \/ (call.outcome.kind = "axios" /\ ~call.outcome.hasResponse
                            /\ call.outcome.errCode = "ECONNABORTED")))
        => /\ call.result.tag = "WeatherAPIError"
           /\ call.result.code = "TIMEOUT"
           /\ call.result.statusCode = 408
           /\ call.result.message = "Request timed out. Please try again."

\* The request waited the ten seconds out and the call was rejected with TIMEOUT.
C9_Witness ==
    /\ CallSettled
    /\ call.elapsed >= 10000
    /\ call.outcome.errCode = "ECONNABORTED"
    /\ call.result.code = "TIMEOUT"

\* C10: a failure without a response whose code is not ECONNABORTED is rejected
\* as WeatherAPIError NETWORK_ERROR, 0, 'Unable to connect to weather service.
\* Please check your internet connection.'.
C10_ConnectionFailureIsSurfaced ==
    (CallSettled /\ call.outcome.kind = "axios" /\ ~call.outcome.hasResponse
                 /\ call.outcome.errCode # "ECONNABORTED")
        => /\ call.result.tag = "WeatherAPIError"
           /\ call.result.code = "NETWORK_ERROR"
           /\ call.result.statusCode = 0
           /\ call.result.message =
                "Unable to connect to weather service. Please check your internet connection."

\* A request that failed with ERR_NETWORK was rejected with NETWORK_ERROR.
C10_Witness ==
    /\ CallSettled
    /\ call.outcome.kind = "axios"
    /\ call.outcome.errCode = "ERR_NETWORK"
    /\ ~call.outcome.hasResponse
    /\ call.result.code = "NETWORK_ERROR"

\* C11: an AxiosError that has a response without a body is rejected as
\* WeatherAPIError UNKNOWN_ERROR, 'Failed to fetch weather data', with the HTTP
\* status of the response.
C11_BodilessResponseIsUnknownError ==
    (CallSettled /\ call.outcome.kind = "axios" /\ call.outcome.hasResponse
                 /\ ~call.outcome.body.present)
        => /\ call.result.tag = "WeatherAPIError"
           /\ call.result.code = "UNKNOWN_ERROR"
           /\ call.result.message = "Failed to fetch weather data"
           /\ call.result.statusCode = call.outcome.status

\* A 500 without a body was rejected with UNKNOWN_ERROR and status 500.
C11_Witness ==
    /\ CallSettled
    /\ call.outcome.hasResponse
    /\ call.outcome.status = 500
    /\ ~call.outcome.body.present
    /\ call.result.code = "UNKNOWN_ERROR"
    /\ call.result.statusCode = 500

\* C12: a rejection that is no AxiosError (an Error, or undefined) is the very
\* value getWeather rejects with: it is not a WeatherAPIError and nothing of it
\* is changed.
C12_NonAxiosIsRethrown ==
    (CallSettled /\ call.outcome.kind = "other")
        => /\ call.result.tag = "thrown"
           /\ call.result.value = call.outcome.value
           /\ call.result = [NoResult EXCEPT !.tag = "thrown", !.value = call.outcome.value]

\* The GET rejected with undefined, and so did getWeather.
C12_Witness ==
    /\ CallSettled
    /\ call.outcome.kind = "other"
    /\ call.outcome.value = UNDEFINED
    /\ call.result.tag = "thrown"
    /\ call.result.value = UNDEFINED

\* s consists of whitespace only.
AllWhiteSpace(s) == \A i \in 1..Len(s) : s[i] \in {" ", "\t"}

\* q is s without a whitespace prefix and a whitespace suffix, and neither
\* starts nor ends with whitespace.
IsTrimOf(q, s) ==
    /\ q # <<>> => (q[1] \notin {" ", "\t"} /\ q[Len(q)] \notin {" ", "\t"})
    /\ Len(q) <= Len(s)
    /\ \E l \in 0..(Len(s) - Len(q)) :
            /\ SubSeq(s, l + 1, l + Len(q)) = q
            /\ AllWhiteSpace(SubSeq(s, 1, l))
            /\ AllWhiteSpace(SubSeq(s, l + Len(q) + 1, Len(s)))

\* C13: getWeather(city) sends its request to '/weather' with the parameter
\* city = city.trim(): the input without its leading and trailing whitespace,
\* everything between unchanged; and when the request succeeds it resolves
\* with the response body as it came.
C13_TrimmedRequestBodyUnchanged ==
    (call.st # "idle") =>
        /\ Len(call.requests) >= 1
        /\ call.requests[1].url = "/weather"
        /\ IsTrimOf(call.requests[1].city, call.input)
        /\ (CallSettled /\ call.outcome.kind = "success") =>
                /\ call.result.tag = "resolved"
                /\ call.result.data = call.outcome.data

\* getWeather('\ta ') asked for 'a' and resolved with the body of the response.
C13_Witness ==
    /\ CallSettled
    /\ call.input = <<"\t", "a", " ">>
    /\ call.requests[1].city = <<"a">>
    /\ call.result.tag = "resolved"
    /\ call.result.data = LondonWeather

\* A tab inside the name reached the backend.
C13_InnerWitness ==
    /\ call.st = "pending"
    /\ call.input = <<"a", "\t", "a">>
    /\ call.requests[1].city = <<"a", "\t", "a">>

\* C14 as claimed: every record getWeather returns has all seven fields, and a
\* success payload that lacks a field is rejected as an internal provider error
\* instead of being returned.
C14_SuccessIsComplete ==
    /\ (CallSettled /\ call.result.tag = "resolved")
            => \A f \in WeatherFields : call.result.data[f] \notin {UNDEFINED, NULL}
    /\ (CallSettled /\ call.outcome.kind = "success"
                    /\ \E f \in WeatherFields : call.outcome.data[f] = UNDEFINED)
            => /\ call.result.tag = "WeatherAPIError"
               /\ call.result.code = "INTERNAL_ERROR"

\* C15: a getWeather call sends one request and never another: also after the
\* request has failed, whatever the failure, the call has sent exactly one.
C15_OneRequestNoRetry ==
    /\ Len(call.requests) <= 1
    /\ (call.st # "idle") => Len(call.requests) = 1
    /\ Rejected => call.requests = <<[url |-> "/weather", city |-> call.requests[1].city]>>

\* A call whose request failed with 502 was rejected having sent one request.
C15_Witness ==
    /\ Rejected
    /\ call.outcome.status = 502
    /\ call.result.tag = "WeatherAPIError"
    /\ Len(call.requests) = 1


(***************************************************************************)
(* Properties of the user interface, checked under Spec.                   *)
(***************************************************************************)
\* The last step was a submit event of the form.  handleSubmit leaves city,
\* and, when it does not call onSubmit, isSubmitting and loading as they were.
Submitting == lastEvent.kind \in {"submit", "click"}

Unsettled == {i \in 1..Len(pending) : ~pending[i].settled}

\* C6 as claimed: onSubmit is called only with the trimmed input, and only when
\* that is non-empty and at most 100 characters long; a submit of an empty or
\* whitespace-only input sets 'Please enter a city name', a submit of an input
\* whose trimmed length exceeds 100 sets 'City name cannot exceed 100
\* characters', and neither calls onSubmit.
C6_SubmitValidates ==
    Submitting =>
        /\ lastEvent.called =>
              /\ lastEvent.arg = Trim(city)
              /\ Trim(city) # <<>>
              /\ Len(Trim(city)) <= 100
        /\ Trim(city) = <<>> =>
              (inputError = "Please enter a city name" /\ ~lastEvent.called)
        /\ Len(Trim(city)) > 100 =>
              (inputError = "City name cannot exceed 100 characters" /\ ~lastEvent.called)

\* C6 as amended: as claimed, but the two errors are set only by a submit that
\* happens while the loading prop is false and no submission of the form is
\* in progress; a submit while loading or submitting changes nothing (and calls
\* nothing).
C6_SubmitValidatesUnlessBusy ==
    Submitting =>
        /\ lastEvent.called =>
              /\ lastEvent.arg = Trim(city)
              /\ Trim(city) # <<>>
              /\ Len(Trim(city)) <= 100
        /\ Trim(city) = <<>> =>
              /\ ~lastEvent.called
              /\ ~(loading \/ isSubmitting) => inputError = "Please enter a city name"
        /\ Len(Trim(city)) > 100 =>
              /\ ~lastEvent.called
              /\ ~(loading \/ isSubmitting) =>
                    inputError = "City name cannot exceed 100 characters"

\* An input of 102 characters whose trimmed value has 100 was submitted, and
\* onSubmit got the 100.
C6_Witness ==
    /\ Submitting
    /\ lastEvent.called
    /\ Len(city) = 102
    /\ Len(lastEvent.arg) = 100
    /\ inputError = NULL

ValidCall == lastStep.kind \in {"hit", "fetching", "joined"}

\* The provider calls in flight for a key.
CallsFor(key) == {f \in fetches : f.key = key}

\* The original fetch of the step's key is at most one TTL old.
WithinTtl == lastStep.prev >= 0 /\ now - lastStep.prev <= CacheTtl

Expired == lastStep.prev >= 0 /\ now - lastStep.prev > CacheTtl

\* C2: after a successful fetch of a key, a call for the key within the TTL
\* (300 s) is a cache hit that returns the record of that fetch, fetched_at
\* unchanged, and makes no provider call; a call after the TTL has expired is
\* not served from the cache but by a provider call, and the record that call
\* produces has a later fetched_at.
C2_HitWithinTtlRefetchAfter ==
    /\ (ValidCall /\ WithinTtl) =>
            /\ lastStep.kind = "hit"
            /\ lastStep.ret = Record(lastStep.key, lastStep.prev)
            /\ CallsFor(lastStep.key) = {}
            /\ \A c \in lastStep.callers : callers[c] = Idle
    /\ (ValidCall /\ Expired) =>
            /\ lastStep.kind \in {"fetching", "joined"}
            /\ CallsFor(lastStep.key) # {}
    /\ (lastStep.kind = "hit") => WithinTtl
    /\ (lastStep.kind = "fetched" /\ lastStep.prev >= 0) =>
            /\ lastStep.ret.kind = "record"
            /\ lastStep.ret.fetched_at = now
            /\ lastStep.ret.fetched_at > lastStep.prev + CacheTtl

\* A call with padding and another case hits, exactly one TTL after the fetch.
C2_Witness ==
    /\ lastStep.kind = "hit"
    /\ lastStep.input = <<" ", "A", " ">>
    /\ lastStep.ret.fetched_at > 0
    /\ now - lastStep.ret.fetched_at = CacheTtl

\* A key is fetched again after its entry expired.
C2_RefetchWitness ==
    /\ lastStep.kind = "fetched"
    /\ lastStep.prev >= 0
    /\ lastStep.ret.fetched_at > lastStep.prev

\* C3: of the concurrent calls for one uncached key exactly one makes a provider
\* call and the others wait on it: there is never more than one provider call in
\* flight for a key, every waiting caller waits on the call of its own key and on
\* no other, and the end of the call releases all its waiters with its one
\* outcome.  A call for a key with no call in flight starts its own at once,
\* whatever is in flight for other keys.
C3_OneProviderCallPerKey ==
    /\ \A k \in CoreKeys : Cardinality(CallsFor(k)) <= 1
    /\ \A c \in Callers :
            IF callers[c].st = "waiting"
            THEN \A f \in fetches : (c \in f.waiters) <=> (f.key = callers[c].key)
            ELSE \A f \in fetches : c \notin f.waiters
    /\ \A f \in fetches : f.waiters # {}
    /\ (lastStep.kind = "joined") =>
            \E f \in CallsFor(lastStep.key) :
                lastStep.callers \subseteq f.waiters /\ Cardinality(f.waiters) >= 2
    /\ (lastStep.kind = "fetching") =>
            CallsFor(lastStep.key) = {Fetch(lastStep.key, CHOOSE c \in lastStep.callers : TRUE)}
    /\ (lastStep.kind \in {"fetched", "failed"}) =>
            /\ lastStep.callers # {}
            /\ \A c \in lastStep.callers : callers[c] = Idle
            /\ CallsFor(lastStep.key) = {}

\* Two callers were waiting on one provider call, and got its record.
C3_Witness ==
    /\ lastStep.kind = "fetched"
    /\ Cardinality(lastStep.callers) = 2

\* C4: a failure is never stored: after a call that ended in an error the cache
\* is as it was and holds no live entry for the key, and a call that is served
\* from the cache is served a record, never a failure; so the call that follows
\* a failure goes to the provider.
C4_FailuresNotCached ==
    /\ (lastStep.kind \in {"failed", "invalid"}) =>
            /\ lastStep.ret.kind = "error"
            /\ CacheGet(cache, lastStep.key, now) = NoReturn
            /\ cache[lastStep.key].present => cache[lastStep.key].record.kind = "record"
            /\ cache[lastStep.key].present <=> lastStep.prev >= 0
    /\ (lastStep.kind = "hit") => lastStep.ret.kind = "record"
    /\ \A k \in CoreKeys :
            /\ cache[k].present <=> lastFetched[k] >= 0
            /\ cache[k].present => cache[k].record = Record(k, lastFetched[k])

\* A provider call timed out for a key that was never fetched with success.
C4_Witness ==
    /\ lastStep.kind = "failed"
    /\ lastStep.ret = Failure("Timeout")
    /\ Cardinality(lastStep.callers) = 1
    /\ ~cache[lastStep.key].present

\* The lower-case form of a letter of the inputs.
Lower(ch) == IF ch = "A" THEN "a" ELSE IF ch = "B" THEN "b" ELSE ch

\* k is the input i without its padding and in lower case.
NormalOf(k, i) ==
    /\ Len(k) <= Len(i)
    /\ \E l \in 0..(Len(i) - Len(k)) :
            LET t == SubSeq(i, l + 1, l + Len(k)) IN
            /\ IsTrimOf(t, i)
            /\ k = [j \in 1..Len(k) |-> Lower(t[j])]

\* C16: the cache key of a call is its input trimmed and case-folded.  A call
\* reads the entry of that key and no other, a miss waits on the provider call
\* that will write that key, and every entry holds the record of its own key:
\* inputs that are equal after trimming and folding share one entry, inputs that
\* differ do not.
C16_KeyIsTrimmedCaseFolded ==
    /\ \A i \in CoreInputs : NormalOf(NormalizedKey(i), i)
    /\ (lastStep.kind \in {"hit", "fetching", "joined", "invalid"})
            => NormalOf(lastStep.key, lastStep.input)
    /\ (lastStep.kind = "hit") =>
            /\ cache[lastStep.key].present
            /\ lastStep.ret = cache[lastStep.key].record
            /\ NormalOf(lastStep.ret.city, lastStep.input)
    /\ (lastStep.kind \in {"fetching", "joined"}) =>
            \E f \in fetches :
                NormalOf(f.key, lastStep.input) /\ lastStep.callers \subseteq f.waiters
    /\ \A k \in CoreKeys : cache[k].present => cache[k].record.city = k

\* A call for ' A ' was served the entry of the key 'a'.
C16_Witness ==
    /\ lastStep.kind = "hit"
    /\ lastStep.input = <<" ", "A", " ">>
    /\ lastStep.key = <<"a">>
    /\ lastStep.ret.city = <<"a">>
    /\ ~cache[<<"b">>].present

\* C17: Cache.get gives absent for an entry older than the TTL and leaves the
\* entry stored, and gives the stored record otherwise; Cache.put replaces
\* whatever entry the key had, so that a get after the put of a re-fetch gives
\* the record of that last put.
C17_GetExpiresPutOverwrites ==
    /\ \A k \in CoreKeys :
            CacheGet(cache, k, now) =
                IF cache[k].present /\ now - cache[k].insertedAt <= CacheTtl
                THEN cache[k].record
                ELSE NoReturn
    /\ (lastStep.kind \in {"fetching", "joined", "failed"} /\ lastStep.prev >= 0) =>
            /\ cache[lastStep.key].present
            /\ cache[lastStep.key].record.fetched_at = lastStep.prev
            /\ now - cache[lastStep.key].insertedAt > CacheTtl
            /\ CacheGet(cache, lastStep.key, now) = NoReturn
    /\ (lastStep.kind = "fetched") =>
            /\ cache[lastStep.key] =
                    [present |-> TRUE, record |-> lastStep.ret, insertedAt |-> now]
            /\ CacheGet(cache, lastStep.key, now) = lastStep.ret

\* The put of a re-fetch replaced the expired entry of the key.
C17_Witness ==
    /\ lastStep.kind = "fetched"
    /\ lastStep.prev >= 0
    /\ cache[lastStep.key].insertedAt = now
    /\ cache[lastStep.key].record.fetched_at > lastStep.prev + CacheTtl
    /\ CacheGet(cache, lastStep.key, now) = lastStep.ret

\* An expired entry is absent to get and still stored.
C17_ExpiredWitness ==
    /\ lastStep.kind = "fetching"
    /\ lastStep.prev >= 0
    /\ cache[lastStep.key].present
    /\ CacheGet(cache, lastStep.key, now) = NoReturn

(***************************************************************************)
(* Properties of what the user is shown, checked under SpecView.           *)
(***************************************************************************)
\* C18: getErrorMessage returns a message for every value.  For a
\* WeatherAPIError with the code UNKNOWN_CITY, TIMEOUT or NETWORK_ERROR it is a
\* fixed text whatever the error's message; for BAD_REQUEST and for every other
\* code it is the error's message when that is not empty, and else 'Invalid
\* request. Please check your input.' (BAD_REQUEST) or 'An unexpected error
\* occurred.'; for a value that is no WeatherAPIError it is 'An unexpected error
\* occurred. Please try again.'.
C18_ErrorMessageTable ==
    (view.fn = "getErrorMessage") =>
        LET e == view.err IN
        /\ view.message # ""
        /\ IF e.tag = "WeatherAPIError"
           THEN /\ (e.code = "UNKNOWN_CITY") =>
                        view.message = "City not found. Please check the spelling and try again."
                /\ (e.code = "TIMEOUT") => view.message = "Request timed out. Please try again."
                /\ (e.code = "NETWORK_ERROR") =>
                        view.message = "Unable to connect. Please check your internet connection."
                /\ (e.code = "BAD_REQUEST") =>
                        view.message = IF e.message # "" THEN e.message
                                       ELSE "Invalid request. Please check your input."
                /\ (e.code \notin {"UNKNOWN_CITY", "TIMEOUT", "NETWORK_ERROR", "BAD_REQUEST"}) =>
                        view.message = IF e.message # "" THEN e.message
                                       ELSE "An unexpected error occurred."
           ELSE view.message = "An unexpected error occurred. Please try again."

\* An UNKNOWN_CITY error with a message of its own got the fixed text.
C18_Witness ==
    /\ view.fn = "getErrorMessage"
    /\ view.err.tag = "WeatherAPIError"
    /\ view.err.code = "UNKNOWN_CITY"
    /\ view.err.message = "City not found"
    /\ view.message = "City not found. Please check the spelling and try again."

\* A value that is no WeatherAPIError got the default text.
C18_OtherValueWitness ==
    /\ view.fn = "getErrorMessage"
    /\ view.err.tag = "thrown"
    /\ view.err.value = "string"
    /\ view.message = "An unexpected error occurred. Please try again."

\* The condition names thunder or a storm, in whatever case.
NamesThunder(condition) ==
    Includes(ToLowerCase(condition), "thunder") \/ Includes(ToLowerCase(condition), "storm")

\* C19 as claimed: WeatherCard shows the thunder icon for every condition that
\* contains 'thunder' or 'storm', also when the text contains another keyword.
C19_ThunderIconForThunder ==
    (view.fn = "WeatherCard" /\ NamesThunder(view.weather.condition))
        => view.icon = "cloud with lightning and rain"

\* C20 as claimed: WeatherCard shows 'Unknown' as the time of the last update
\* for a fetched_at that is no parseable date, and the formatted date for a
\* valid ISO-8601 timestamp.
C20_UnknownForInvalidDate ==
    (view.fn = "WeatherCard") =>
        IF NewDate(view.weather.fetched_at).valid
        THEN view.updated \notin {"Unknown", "Invalid Date", ""}
        ELSE view.updated = "Unknown"

(***************************************************************************)
(* Properties of the form and of App, checked under Spec.                  *)
(***************************************************************************)
\* s has a character that is no whitespace.
NonBlank(s) == \E i \in 1..Len(s) : s[i] \notin {" ", "\t"}

\* The last step was a change of the input.
Changed == lastEvent.kind = "change"

\* C21: the submit button is enabled exactly when loading is false, no
\* submission of the form is pending (no handleSubmit is waiting for its
\* onSubmit or finishing after it) and the input has a character that is no
\* whitespace; so it is disabled at first, for whitespace-only input and after
\* the input is cleared.
C21_ButtonEnabledExactlyWhen ==
    /\ (~ButtonDisabled) <=> (~loading /\ pending = <<>> /\ NonBlank(city))
    /\ (lastEvent.kind = "none") => ButtonDisabled

\* The button is enabled again once the submission under App has finished.
C21_Witness ==
    /\ parent = "App"
    /\ lastEvent.kind = "finally"
    /\ pending = <<>>
    /\ NonBlank(city)
    /\ ~ButtonDisabled

\* The button is disabled again after the input was cleared.
C21_ClearedWitness ==
    /\ Changed
    /\ city = <<>>
    /\ ~loading
    /\ pending = <<>>
    /\ ButtonDisabled

\* C22: while loading is true the input and the submit button are disabled,
\* and a submit event that arrives then calls no onSubmit.
C22_LoadingDisablesForm ==
    /\ [](loading => (InputDisabled /\ ButtonDisabled))
    /\ [][(loading /\ lastEvent'.kind \in {"submit", "click"})
            => (~lastEvent'.called /\ pending' = pending /\ loading')]_vars

\* A submit event with a valid city arrived while loading and called nothing.
C22_Witness ==
    /\ loading
    /\ lastEvent.kind = "submit"
    /\ ~lastEvent.called
    /\ NonBlank(city)
    /\ Len(Trim(city)) <= 100
    /\ ~isSubmitting
    /\ pending = <<>>

C23_TypingWitness ==
    /\ Changed
    /\ NonBlank(city)
    /\ inputError = NULL
    /\ error = "Network error"
    /\ Alert = "Network error"

\* C24: a change of the input to a value with a character that is no
\* whitespace clears the input error; a change to an empty or whitespace-only
\* value keeps it.
C24_InputErrorClearedByTyping ==
    [][(lastEvent'.kind = "change")
        => inputError' = (IF inputError # NULL /\ NonBlank(city') THEN NULL ELSE inputError)]_vars

\* The input changed to a space and the input error is still there.
C24_Witness ==
    /\ Changed
    /\ city = <<" ">>
    /\ inputError = "Please enter a city name"

\* C25: after a failed search App holds no weather record and an error
\* message, and shows no weather card; whenever App holds an error message it
\* holds no record, that of an earlier search included.
C25_NoStaleWeatherAfterFailure ==
    /\ (lastEvent.kind = "failed") =>
            /\ weather = NullWeather
            /\ error \notin {NULL, ""}
            /\ ~WeatherCardShown
    /\ (parent = "App" /\ error # NULL) => (weather = NullWeather /\ ~WeatherCardShown)

\* A search failed with UNKNOWN_CITY: its message is held and no record.
C25_Witness ==
    /\ lastEvent.kind = "failed"
    /\ error = "City not found. Please check the spelling and try again."
    /\ weather = NullWeather
    /\ ~loading
    /\ ~WeatherCardShown

====
